---- MODULE Spec2Model ----
(***************************************************************************)
(* Transcription lifecycle of the medical transcription service.          *)
(*                                                                         *)
(* The model covers the upload endpoint, the background pipeline           *)
(* process_audio_transcription, the live-session transcription_final       *)
(* handler and the record store (DatabaseService).                         *)
(*                                                                         *)
(* Modelling conventions:                                                  *)
(*  - app/api/routes.py and app/services/audio_service.py call the store   *)
(*    through module-level names (create_transcription(db, ...),           *)
(*    update_transcription(db, id, ...), save_terminology_validations).    *)
(*    They are modelled as the DatabaseService methods of the same name    *)
(*    applied to the session; the keyword raw_text of the route is the     *)
(*    parameter transcript_text of the method (it writes the raw_text      *)
(*    column).                                                             *)
(*  - Identifiers (uuid values and their string forms) are abstract        *)
(*    values; a nullable column is <<>> (NULL) or <<v>>.                   *)
(*  - The external engines (extraction, term validation) and every store   *)
(*    commit may raise; this is a nondeterministic choice in the action    *)
(*    that calls them.                                                     *)
(*  - A background task is a coroutine; its position is task.pc and it     *)
(*    advances one call at a time.                                         *)
(*  - The clock (datetime.utcnow()) counts request arrivals: it advances   *)
(*    with every request served, and a step of a background task reads     *)
(*    the clock of the latest arrival.                                     *)
(***************************************************************************)
EXTENDS Integers, Sequences, FiniteSets, TLC

(***************************************************************************)
(* Bounds of the model.                                                    *)
(***************************************************************************)
\* requests served: accepted uploads, live events and repeated runs
MaxRequests == 2
\* direct calls of the store operations
MaxCalls == 3

(***************************************************************************)
(* Values.                                                                 *)
(***************************************************************************)
NULL == <<>>
Some(v) == <<v>>

\* app/db/models.py TranscriptionStatus
PROCESSING == "processing"
COMPLETED == "completed"
FAILED == "failed"
TranscriptionStatus == {PROCESSING, COMPLETED, FAILED}
Terminal == {COMPLETED, FAILED}

\* routes.py:112, the simulated transcript of an uploaded file
transcript == "Simulated transcription from uploaded audio file. Patient reports chest pain and shortness of breath."

\* medical_summarizer.py:40-50, the structured notes _parse_llm_response returns
parse_llm_response == [urgency_level |-> "high", follow_up_required |-> TRUE,
                       summary |-> "Patient presents with chest pain and SOB. Requires urgent cardiac workup."]

\* routes.py:133
UploadConfidence == 95

\* file names are sequences of characters
WavName == <<"a", ".", "w", "a", "v">>
UpperName == <<"a", ".", "W", "A", "V">>
TxtName == <<"a", ".", "t", "x", "t">>
NoExtName == <<"w", "a", "v">>
HiddenName == <<".", "m", "p", "3">>

\* the upload requests the model draws from: file name, patient, doctor
UploadRequests ==
    { [filename |-> WavName,    patient_id |-> "p1", doctor_id |-> "d1"],
      [filename |-> UpperName,  patient_id |-> "p2", doctor_id |-> "d2"],
      [filename |-> TxtName,    patient_id |-> "p1", doctor_id |-> "d1"],
      [filename |-> NoExtName,  patient_id |-> "p1", doctor_id |-> "d1"],
      [filename |-> HiddenName, patient_id |-> "p1", doctor_id |-> "d1"] }

(***************************************************************************)
(* os.path.splitext(name)[1].lower()                                       *)
(***************************************************************************)
lower(c) ==
    CASE c = "W" -> "w"
      [] c = "A" -> "a"
      [] c = "V" -> "v"
      [] c = "M" -> "m"
      [] c = "P" -> "p"
      [] OTHER -> c

\* index of the last "." of name, 0 when there is none
LastDot(name) ==
    LET dots == { i \in 1..Len(name) : name[i] = "." }
    IN  IF dots = {} THEN 0 ELSE CHOOSE i \in dots : \A j \in dots : j <= i

\* posixpath.splitext: the extension starts at the last dot, unless only dots
\* precede it (a leading-dot name has no extension)
splitext(name) ==
    LET d == LastDot(name)
    IN  IF d = 0 \/ (\A i \in 1..d : name[i] = ".")
        THEN <<name, <<>>>>
        ELSE <<SubSeq(name, 1, d - 1), SubSeq(name, d, Len(name))>>

file_extension(name) ==
    LET ext == splitext(name)[2]
    IN  [i \in 1..Len(ext) |-> lower(ext[i])]

\* routes.py:21
allowed_extensions ==
    { <<".", "w", "a", "v">>, <<".", "m", "p", "3">>,
      <<".", "m", "4", "a">>, <<".", "w", "e", "b", "m">> }

\* routes.py:28, file_path = f"/tmp/{file.filename}"
file_path(name) == <<"/", "t", "m", "p", "/">> \o name

(***************************************************************************)
(* State.                                                                  *)
(***************************************************************************)
VARIABLES
    transcriptions,            \* the transcriptions table: id -> row
    terminology_validations,   \* the terminology_validations table, in insertion order
    tmp,                       \* the files under /tmp: path -> content (the upload that wrote it)
    tasks,                     \* the background tasks dispatched so far
    now,                       \* datetime.utcnow(), in units of request arrivals
    uploads,                   \* number of uploads that passed the extension check
    events,                    \* number of transcription_final events handled
    response,                  \* the HTTP response of the request just handled, if any
    last_call                  \* the last direct call of a store operation: its arguments and result

vars == <<transcriptions, terminology_validations, tmp, tasks, now, uploads, events, response, last_call>>

\* models.py:132-137: Column(default=datetime.now(timezone.utc)) is evaluated
\* once, when the module is imported, before any request is served
ImportTime == 0

\* an id generator that returns the same id every time
uuid4_repeating(db) == 1

\* uuid.uuid4(): an id no row has
uuid4(db) == Cardinality(DOMAIN db) + 1

(***************************************************************************)
(* DatabaseService                                                         *)
(***************************************************************************)
\* get_transcription: the row, or None
get_transcription(db, transcription_id) ==
    IF transcription_id \in DOMAIN db THEN Some(db[transcription_id]) ELSE NULL

\* create_transcription keyed by a fixed id instead of a generated one
create_transcription_fixed_id(db, data, t, commit_ok) ==
    LET id == 1
        row == [ patient_id       |-> data.patient_id,
                 doctor_id        |-> data.doctor_id,
                 audio_file_path  |-> data.audio_file_path,
                 raw_text         |-> NULL,
                 medical_notes    |-> NULL,
                 status           |-> PROCESSING,
                 confidence_score |-> NULL,
                 processed_at     |-> NULL,
                 created_at       |-> t,
                 updated_at       |-> ImportTime ]
    IN  IF commit_ok
        THEN [ db |-> [i \in DOMAIN db \cup {id} |-> IF i = id THEN row ELSE db[i]],
               raised |-> FALSE, id |-> id ]
        ELSE [ db |-> db, raised |-> TRUE, id |-> 0 ]

\* create_transcription: the row built at database_service.py:21-31; the
\* columns it does not name take their defaults (models.py:102-137).
\* commit_ok = FALSE is a commit that raises: nothing is stored.
create_transcription(db, data, t, commit_ok) ==
    LET id == uuid4(db)
        row == [ patient_id       |-> data.patient_id,
                 doctor_id        |-> data.doctor_id,
                 audio_file_path  |-> data.audio_file_path,
                 raw_text         |-> NULL,
                 medical_notes    |-> NULL,
                 status           |-> PROCESSING,
                 confidence_score |-> NULL,
                 processed_at     |-> NULL,
                 created_at       |-> t,
                 updated_at       |-> ImportTime ]
    IN  IF commit_ok
        THEN [ db |-> [i \in DOMAIN db \cup {id} |-> IF i = id THEN row ELSE db[i]],
               raised |-> FALSE, id |-> id ]
        ELSE [ db |-> db, raised |-> TRUE, id |-> 0 ]

\* update_transcription with processed_at set only by an update to completed
update_transcription_completed_only(db, transcription_id, transcript_text, medical_notes, status, confidence_score, t, commit_ok) ==
    IF get_transcription(db, transcription_id) = NULL
    THEN [ db |-> db, result |-> "none" ]
    ELSE IF ~commit_ok \/ (status # NULL /\ status[1] \notin TranscriptionStatus)
    THEN [ db |-> db, result |-> "raise" ]
    ELSE LET old == db[transcription_id]
             new == [ old EXCEPT
                        !.raw_text = IF transcript_text # NULL THEN transcript_text ELSE @,
                        !.medical_notes = IF medical_notes # NULL THEN medical_notes ELSE @,
                        !.status = IF status # NULL THEN status[1] ELSE @,
                        !.confidence_score = IF confidence_score # NULL THEN confidence_score ELSE @,
                        !.processed_at = IF status = Some(COMPLETED) THEN Some(t) ELSE @,
                        !.updated_at = t ]
         IN  [ db |-> [db EXCEPT ![transcription_id] = new], result |-> "row" ]

\* update_transcription assigning every argument, None included
update_transcription_assign_all(db, transcription_id, transcript_text, medical_notes, status, confidence_score, t, commit_ok) ==
    IF get_transcription(db, transcription_id) = NULL
    THEN [ db |-> db, result |-> "none" ]
    ELSE IF ~commit_ok \/ (status # NULL /\ status[1] \notin TranscriptionStatus)
    THEN [ db |-> db, result |-> "raise" ]
    ELSE LET old == db[transcription_id]
             new == [ old EXCEPT
                        !.raw_text = transcript_text,
                        !.medical_notes = medical_notes,
                        !.status = IF status # NULL THEN status[1] ELSE @,
                        !.confidence_score = confidence_score,
                        !.processed_at = Some(t),
                        !.updated_at = t ]
         IN  [ db |-> [db EXCEPT ![transcription_id] = new], result |-> "row" ]

\* update_transcription: None when no row has the id; otherwise the non-None
\* arguments are merged, processed_at and updated_at are set to now and the
\* session commits. A status that is no TranscriptionStatus, or a commit that
\* raises (commit_ok = FALSE), rolls the session back and re-raises.
update_transcription(db, transcription_id, transcript_text, medical_notes, status, confidence_score, t, commit_ok) ==
    IF get_transcription(db, transcription_id) = NULL
    THEN [ db |-> db, result |-> "none" ]
    ELSE IF ~commit_ok \/ (status # NULL /\ status[1] \notin TranscriptionStatus)
    THEN [ db |-> db, result |-> "raise" ]
    ELSE LET old == db[transcription_id]
             new == [ old EXCEPT
                        !.raw_text = IF transcript_text # NULL THEN transcript_text ELSE @,
                        !.medical_notes = IF medical_notes # NULL THEN medical_notes ELSE @,
                        !.status = IF status # NULL THEN status[1] ELSE @,
                        !.confidence_score = IF confidence_score # NULL THEN confidence_score ELSE @,
                        !.processed_at = Some(t),
                        !.updated_at = t ]
         IN  [ db |-> [db EXCEPT ![transcription_id] = new], result |-> "row" ]

\* order_by(created_at) without desc(): oldest first
RECURSIVE order_by_created_at_asc(_, _)
order_by_created_at_asc(db, ids) ==
    IF ids = {} THEN <<>>
    ELSE LET first == CHOOSE i \in ids : \A j \in ids : db[i].created_at <= db[j].created_at
         IN  <<first>> \o order_by_created_at_asc(db, ids \ {first})

\* order_by(desc(Transcription.created_at)): the ids of the selected rows,
\* the latest created first (database_service.py:84, 92)
RECURSIVE order_by_created_at_desc(_, _)
order_by_created_at_desc(db, ids) ==
    IF ids = {} THEN <<>>
    ELSE LET first == CHOOSE i \in ids : \A j \in ids : db[j].created_at <= db[i].created_at
         IN  <<first>> \o order_by_created_at_desc(db, ids \ {first})

\* get_patient_transcriptions: filter on patient_id, latest first
get_patient_transcriptions(db, patient_id) ==
    order_by_created_at_desc(db, {i \in DOMAIN db : db[i].patient_id = patient_id})

\* get_doctor_transcriptions: filter on doctor_id, latest first
get_doctor_transcriptions(db, doctor_id) ==
    order_by_created_at_desc(db, {i \in DOMAIN db : db[i].doctor_id = doctor_id})

\* one TerminologyValidation row per validation (database_service.py:126-136)
ValidationRow(transcription_id, validation, t) ==
    [ transcription_id |-> transcription_id,
      original_term    |-> validation.term,
      is_medical       |-> validation.is_medical,
      confidence       |-> validation.confidence,
      category         |-> validation.category ]

\* save_terminology_validations: every validation becomes a new row; the
\* rows are committed together, or none is when the commit raises
save_terminology_validations(rows, transcription_id, validations, t, commit_ok) ==
    IF commit_ok
    THEN [ rows |-> rows \o [i \in 1..Len(validations) |->
                                ValidationRow(transcription_id, validations[i], t)],
           raised |-> FALSE ]
    ELSE [ rows |-> rows, raised |-> TRUE ]

(***************************************************************************)
(* Engines                                                                 *)
(***************************************************************************)
\* the terms of the simulated transcript
extract_medical_terms(text) ==
    IF text = transcript THEN <<"chest pain", "shortness of breath">> ELSE <<>>

\* terminology_validator.py:32-43
validate_single_term(term) ==
    [ term |-> term, is_medical |-> TRUE, confidence |-> 95, category |-> "condition" ]

(***************************************************************************)
(* Initial state: empty tables, empty /tmp, no task.                       *)
(***************************************************************************)
NoResponse == [ code |-> 0, id |-> 0 ]
NoCall == [ op |-> "none" ]

Init ==
    /\ transcriptions = <<>>
    /\ terminology_validations = <<>>
    /\ tmp = <<>>
    /\ tasks = <<>>
    /\ now = ImportTime + 1
    /\ uploads = 0
    /\ events = 0
    /\ response = NoResponse
    /\ last_call = NoCall

\* the requests served so far
Requests == uploads + events + Cardinality({ i \in DOMAIN tasks : tasks[i].run > 1 })

\* open(file_path, "wb").write(content)
write_file(fs, path, content) ==
    [p \in DOMAIN fs \cup {path} |-> IF p = path THEN content ELSE fs[p]]

\* os.remove(path) of an existing file
remove_file(fs, path) ==
    [p \in DOMAIN fs \ {path} |-> fs[p]]

\* a task as background_tasks.add_task creates it (routes.py:45-51); faults,
\* upload and run record the history of the run: the calls of the run that
\* raised, the upload that wrote the run's file, and whether it is the first
\* or a repeated run for its id
NewTask(transcription_id, path, upload, run) ==
    [ transcription_id |-> transcription_id,
      audio_file_path  |-> path,
      pc               |-> "extract",
      medical_notes    |-> NULL,
      validated_terms  |-> <<>>,
      faults           |-> {},
      upload           |-> upload,
      run              |-> run ]

(***************************************************************************)
(* POST /transcribe/upload (routes.py:11-54)                               *)
(***************************************************************************)
\* the upload handler with the file saved before the extension is looked at
upload_audio_transcription_save_first(req, commit_ok) ==
    IF file_extension(req.filename) \notin allowed_extensions
    THEN /\ response' = [ code |-> 400, id |-> 0 ]
         /\ tmp' = write_file(tmp, file_path(req.filename), uploads + 1)
         /\ UNCHANGED <<transcriptions, terminology_validations, tasks, now, uploads, events>>
    ELSE LET path == file_path(req.filename)
             made == create_transcription(transcriptions,
                        [ patient_id |-> req.patient_id, doctor_id |-> req.doctor_id,
                          audio_file_path |-> Some(path) ], now, commit_ok)
         IN  /\ Requests < MaxRequests
             /\ now' = now + 1
             /\ uploads' = uploads + 1
             /\ tmp' = write_file(tmp, path, uploads + 1)
             /\ transcriptions' = made.db
             /\ IF made.raised
                THEN /\ response' = [ code |-> 500, id |-> 0 ]
                     /\ UNCHANGED tasks
                ELSE /\ response' = [ code |-> 200, id |-> made.id ]
                     /\ tasks' = Append(tasks, NewTask(made.id, path, uploads + 1, 1))
             /\ UNCHANGED <<terminology_validations, events>>

upload_audio_transcription(req, commit_ok) ==
    IF file_extension(req.filename) \notin allowed_extensions
    THEN /\ response' = [ code |-> 400, id |-> 0 ]
         /\ UNCHANGED <<transcriptions, terminology_validations, tmp, tasks, now, uploads, events>>
    ELSE LET path == file_path(req.filename)
             made == create_transcription(transcriptions,
                        [ patient_id |-> req.patient_id, doctor_id |-> req.doctor_id,
                          audio_file_path |-> Some(path) ], now, commit_ok)
         IN  /\ Requests < MaxRequests
             /\ now' = now + 1
             /\ uploads' = uploads + 1
             /\ tmp' = write_file(tmp, path, uploads + 1)
             /\ transcriptions' = made.db
             /\ IF made.raised
                THEN /\ response' = [ code |-> 500, id |-> 0 ]
                     /\ UNCHANGED tasks
                ELSE /\ response' = [ code |-> 200, id |-> made.id ]
                     /\ tasks' = Append(tasks, NewTask(made.id, path, uploads + 1, 1))
             /\ UNCHANGED <<terminology_validations, events>>

Upload ==
    \E req \in UploadRequests, commit_ok \in BOOLEAN :
        upload_audio_transcription(req, commit_ok) /\ UNCHANGED last_call

(***************************************************************************)
(* transcription_final handler of the live session                         *)
(* (audio_service.py:51-79)                                                *)
(***************************************************************************)
handle_transcription(text, notes_ok, commit_ok) ==
    /\ Requests < MaxRequests
    /\ now' = now + 1
    /\ events' = events + 1
    /\ IF text = "" \/ ~notes_ok
       THEN UNCHANGED transcriptions
       ELSE transcriptions' = create_transcription(transcriptions,
                [ patient_id |-> "livekit-patient", doctor_id |-> "livekit-doctor",
                  audio_file_path |-> NULL ], now, commit_ok).db
    /\ response' = NoResponse
    /\ UNCHANGED <<terminology_validations, tmp, tasks, uploads>>

LiveEvent ==
    \E text \in {"", "Patient reports chest pain."}, notes_ok \in BOOLEAN, commit_ok \in BOOLEAN :
        handle_transcription(text, notes_ok, commit_ok) /\ UNCHANGED last_call

(***************************************************************************)
(* process_audio_transcription (routes.py:104-164), one call per step      *)
(***************************************************************************)
Raise(task, call) == [ task EXCEPT !.pc = "except", !.faults = @ \cup {call} ]

\* routes.py:115, medical_notes = await generate_medical_notes(transcript)
Extract(i, ok) ==
    /\ tasks[i].pc = "extract"
    /\ tasks' = [ tasks EXCEPT ![i] =
                    IF ok
                    THEN [ @ EXCEPT !.medical_notes = Some(parse_llm_response),
                                    !.pc = IF extract_medical_terms(transcript) = <<>>
                                           THEN "update" ELSE "validate" ]
                    ELSE Raise(@, "extract") ]
    /\ UNCHANGED <<transcriptions, terminology_validations, tmp, now, uploads, events>>

\* validate_terms returning after its first term
Validate_first_term_only(i, ok) ==
    LET terms == extract_medical_terms(transcript)
        k == Len(tasks[i].validated_terms) + 1
    IN  /\ tasks[i].pc = "validate"
        /\ tasks' = [ tasks EXCEPT ![i] =
                        IF ok
                        THEN [ @ EXCEPT !.validated_terms = Append(@, validate_single_term(terms[k])),
                                        !.pc = "update" ]
                        ELSE Raise(@, "validate") ]
        /\ UNCHANGED <<transcriptions, terminology_validations, tmp, now, uploads, events>>

\* routes.py:118-119 and terminology_validator.py:24-30: validate_terms
\* awaits _validate_single_term for one term after the other and handles no
\* exception
Validate(i, ok) ==
    LET terms == extract_medical_terms(transcript)
        k == Len(tasks[i].validated_terms) + 1
    IN  /\ tasks[i].pc = "validate"
        /\ tasks' = [ tasks EXCEPT ![i] =
                        IF ok
                        THEN [ @ EXCEPT !.validated_terms = Append(@, validate_single_term(terms[k])),
                                        !.pc = IF k = Len(terms) THEN "update" ELSE "validate" ]
                        ELSE Raise(@, "validate") ]
        /\ UNCHANGED <<transcriptions, terminology_validations, tmp, now, uploads, events>>

\* routes.py:127-134, the update to completed
Persist(i, commit_ok) ==
    LET task == tasks[i]
        upd == update_transcription(transcriptions, task.transcription_id, Some(transcript),
                                    task.medical_notes, Some(COMPLETED), Some(UploadConfidence),
                                    now, commit_ok)
    IN  /\ task.pc = "update"
        /\ transcriptions' = upd.db
        /\ tasks' = [ tasks EXCEPT ![i] =
                        IF upd.result = "raise" THEN Raise(@, "update")
                        ELSE [ @ EXCEPT !.pc = "save" ] ]
        /\ UNCHANGED <<terminology_validations, tmp, now, uploads, events>>

\* routes.py:137-148, the validated terms are saved and the session is closed
SaveTerms(i, commit_ok) ==
    LET task == tasks[i]
        saved == IF task.validated_terms # <<>>
                 THEN save_terminology_validations(terminology_validations, task.transcription_id,
                                                   task.validated_terms, now, commit_ok)
                 ELSE [ rows |-> terminology_validations, raised |-> FALSE ]
    IN  /\ task.pc = "save"
        /\ terminology_validations' = saved.rows
        /\ tasks' = [ tasks EXCEPT ![i] =
                        IF saved.raised THEN Raise(@, "save")
                        ELSE [ @ EXCEPT !.pc = "remove" ] ]
        /\ UNCHANGED <<transcriptions, tmp, now, uploads, events>>

\* routes.py:150-152, os.remove(audio_file_path): FileNotFoundError when the
\* file is not there
Cleanup(i) ==
    LET task == tasks[i]
    IN  /\ task.pc = "remove"
        /\ IF task.audio_file_path \in DOMAIN tmp
           THEN /\ tmp' = remove_file(tmp, task.audio_file_path)
                /\ tasks' = [ tasks EXCEPT ![i].pc = "returned" ]
           ELSE /\ tmp' = tmp
                /\ tasks' = [ tasks EXCEPT ![i] = Raise(@, "remove") ]
        /\ UNCHANGED <<transcriptions, terminology_validations, now, uploads, events>>

\* the exception handler without its update to failed: it logs and returns
Handler_log_only(i, commit_ok) ==
    /\ tasks[i].pc = "except"
    /\ tasks' = [ tasks EXCEPT ![i].pc = "returned" ]
    /\ UNCHANGED <<transcriptions, terminology_validations, tmp, now, uploads, events>>

\* routes.py:154-164, except Exception: the update to failed; an exception
\* of that update leaves the function (try/finally without except)
Handler(i, commit_ok) ==
    LET task == tasks[i]
        upd == update_transcription(transcriptions, task.transcription_id, NULL, NULL,
                                    Some(FAILED), NULL, now, commit_ok)
    IN  /\ task.pc = "except"
        /\ transcriptions' = upd.db
        /\ tasks' = [ tasks EXCEPT ![i] =
                        IF upd.result = "raise"
                        THEN [ @ EXCEPT !.pc = "raised", !.faults = @ \cup {"handler"} ]
                        ELSE [ @ EXCEPT !.pc = "returned" ] ]
        /\ UNCHANGED <<terminology_validations, tmp, now, uploads, events>>

\* a background task advances by one call; no response is being sent
ExtractStep == \E i \in DOMAIN tasks, ok \in BOOLEAN : Extract(i, ok) /\ response' = NoResponse /\ UNCHANGED last_call
ValidateStep == \E i \in DOMAIN tasks, ok \in BOOLEAN : Validate(i, ok) /\ response' = NoResponse /\ UNCHANGED last_call
PersistStep == \E i \in DOMAIN tasks, ok \in BOOLEAN : Persist(i, ok) /\ response' = NoResponse /\ UNCHANGED last_call
SaveTermsStep == \E i \in DOMAIN tasks, ok \in BOOLEAN : SaveTerms(i, ok) /\ response' = NoResponse /\ UNCHANGED last_call
CleanupStep == \E i \in DOMAIN tasks : Cleanup(i) /\ response' = NoResponse /\ UNCHANGED last_call
HandlerStep == \E i \in DOMAIN tasks, ok \in BOOLEAN : Handler(i, ok) /\ response' = NoResponse /\ UNCHANGED last_call

Next ==
    \/ Upload
    \/ LiveEvent
    \/ ExtractStep
    \/ ValidateStep
    \/ PersistStep
    \/ SaveTermsStep
    \/ CleanupStep
    \/ HandlerStep

Spec == Init /\ [][Next]_vars

(***************************************************************************)
(* The pipeline invoked again for a transcription that is completed: the   *)
(* caller of process_audio_transcription passes the same arguments as the  *)
(* first dispatch (routes.py:45-51).                                       *)
(***************************************************************************)
Finished(task) == task.pc \in {"returned", "raised"}

Rerun(i) ==
    /\ Requests < MaxRequests
    /\ Finished(tasks[i])
    /\ \A j \in DOMAIN tasks :
          tasks[j].transcription_id = tasks[i].transcription_id => Finished(tasks[j])
    /\ tasks[i].transcription_id \in DOMAIN transcriptions
    /\ transcriptions[tasks[i].transcription_id].status = COMPLETED
    /\ tasks' = Append(tasks, NewTask(tasks[i].transcription_id, tasks[i].audio_file_path,
                                      tasks[i].upload, tasks[i].run + 1))
    /\ response' = NoResponse
    /\ UNCHANGED <<transcriptions, terminology_validations, tmp, now, uploads, events, last_call>>

Redispatch == \E i \in DOMAIN tasks : Rerun(i)

NextRerun ==
    \/ Next
    \/ Redispatch

SpecRerun == Init /\ [][NextRerun]_vars

(***************************************************************************)
(* The GET routes (routes.py:57-82). A def at module level rebinds the     *)
(* name imported at routes.py:6: inside routes.py, get_transcription and   *)
(* get_patient_transcriptions are the routes themselves. The route of the  *)
(* doctor imports its store function inside its body and calls that.       *)
(***************************************************************************)
\* the depth of calls at which the interpreter raises RecursionError
RecursionLimit == 3

\* routes.py:57-65; the call at line 60 passes (db, transcription_id) to the
\* parameters (transcription_id, db) of the route
RECURSIVE route_get_transcription(_, _, _)
route_get_transcription(transcription_id, db, depth) ==
    IF depth > RecursionLimit
    THEN [ raised |-> "RecursionError" ]
    ELSE LET transcription == route_get_transcription(db, transcription_id, depth + 1)
         IN  IF transcription.raised # "" THEN transcription
             ELSE IF transcription.value = NULL
             THEN [ raised |-> "HTTPException", status_code |-> 404 ]
             ELSE [ raised |-> "", value |-> transcription.value ]

\* routes.py:68-73; the call at line 71 re-enters the route in the same way
RECURSIVE route_get_patient_transcriptions(_, _, _)
route_get_patient_transcriptions(patient_id, db, depth) ==
    IF depth > RecursionLimit
    THEN [ raised |-> "RecursionError" ]
    ELSE route_get_patient_transcriptions(db, patient_id, depth + 1)

\* routes.py:76-82
route_get_doctor_transcriptions(doctor_id, db) ==
    [ raised |-> "", value |-> get_doctor_transcriptions(db, doctor_id) ]

\* the answer to the GET of a path: the payload, the status of an
\* HTTPException, or 500 for any other exception
Answer(path, r) ==
    IF r.raised = "" THEN [ code |-> 200, id |-> 0, path |-> path, body |-> r.value ]
    ELSE IF r.raised = "HTTPException" THEN [ code |-> r.status_code, id |-> 0, path |-> path ]
    ELSE [ code |-> 500, id |-> 0, path |-> path ]

GET_transcription(transcription_id) ==
    /\ response' = Answer("/transcriptions/{transcription_id}",
                          route_get_transcription(transcription_id, transcriptions, 1))
    /\ UNCHANGED <<transcriptions, terminology_validations, tmp, tasks, now, uploads, events,
                   last_call>>

GET_patient_transcriptions(patient_id) ==
    /\ response' = Answer("/patients/{patient_id}/transcriptions",
                          route_get_patient_transcriptions(patient_id, transcriptions, 1))
    /\ UNCHANGED <<transcriptions, terminology_validations, tmp, tasks, now, uploads, events,
                   last_call>>

GET_doctor_transcriptions(doctor_id) ==
    /\ response' = Answer("/doctor/{doctor_id}/transcriptions",
                          route_get_doctor_transcriptions(doctor_id, transcriptions))
    /\ UNCHANGED <<transcriptions, terminology_validations, tmp, tasks, now, uploads, events,
                   last_call>>

TranscriptionIds == 1..(MaxRequests + 1)
PatientIds == {"p1", "p2", "p3"}
DoctorIds == {"d1", "d2", "d3"}

GetTranscription == \E transcription_id \in TranscriptionIds : GET_transcription(transcription_id)
GetPatientTranscriptions == \E patient_id \in PatientIds : GET_patient_transcriptions(patient_id)
GetDoctorTranscriptions == \E doctor_id \in DoctorIds : GET_doctor_transcriptions(doctor_id)

NextRead ==
    \/ Next
    \/ GetTranscription
    \/ GetPatientTranscriptions
    \/ GetDoctorTranscriptions

SpecRead == Init /\ [][NextRead]_vars

(***************************************************************************)
(* The store operations called directly, with arguments drawn from small   *)
(* sets.                                                                   *)
(***************************************************************************)
StoreIds == 1..2
TextArgs == {NULL, Some(transcript)}
NotesArgs == {NULL, Some(parse_llm_response)}
StatusArgs == {NULL, Some(PROCESSING), Some(COMPLETED), Some(FAILED), Some("done")}
ConfidenceArgs == {NULL, Some(UploadConfidence)}

StoreCreate ==
    \E patient_id \in {"p1", "p2"}, commit_ok \in BOOLEAN :
        LET r == create_transcription(transcriptions,
                    [ patient_id |-> patient_id, doctor_id |-> "d1", audio_file_path |-> NULL ],
                    now, commit_ok)
        IN  /\ now - ImportTime <= MaxCalls
            /\ uuid4(transcriptions) \in StoreIds
            /\ transcriptions' = r.db
            /\ last_call' = [ op |-> "create", result |-> IF r.raised THEN "raise" ELSE "row" ]
            /\ now' = now + 1
            /\ UNCHANGED <<terminology_validations, tmp, tasks, uploads, events, response>>

StoreUpdate ==
    \E id \in StoreIds, text \in TextArgs, notes \in NotesArgs, status \in StatusArgs,
       confidence \in ConfidenceArgs, commit_ok \in BOOLEAN :
        LET r == update_transcription(transcriptions, id, text, notes, status,
                                      confidence, now, commit_ok)
        IN  /\ now - ImportTime <= MaxCalls
            /\ transcriptions' = r.db
            /\ last_call' = [ op |-> "update", transcription_id |-> id, transcript_text |-> text,
                         medical_notes |-> notes, status |-> status,
                         confidence_score |-> confidence, result |-> r.result ]
            /\ now' = now + 1
            /\ UNCHANGED <<terminology_validations, tmp, tasks, uploads, events, response>>

StoreSave ==
    \E id \in StoreIds, n \in 0..2, commit_ok \in BOOLEAN :
        LET r == save_terminology_validations(terminology_validations, id,
                    [k \in 1..n |-> validate_single_term(extract_medical_terms(transcript)[k])],
                    now, commit_ok)
        IN  /\ now - ImportTime <= MaxCalls
            /\ terminology_validations' = r.rows
            /\ last_call' = [ op |-> "save", result |-> IF r.raised THEN "raise" ELSE "saved" ]
            /\ now' = now + 1
            /\ UNCHANGED <<transcriptions, tmp, tasks, uploads, events, response>>

NextStore ==
    \/ StoreCreate
    \/ StoreUpdate
    \/ StoreSave

SpecStore == Init /\ [][NextStore]_vars

(***************************************************************************)
(* Properties                                                              *)
(***************************************************************************)
Row(i) == transcriptions[tasks[i].transcription_id]

HasContent(row) == row.raw_text # NULL /\ row.medical_notes # NULL

\* the rows of terminology_validations of one transcription and one term
RowsOf(rows, id, term) ==
    { k \in DOMAIN rows : rows[k].transcription_id = id /\ rows[k].original_term = term }

\* the file a run's upload wrote is still in /tmp
FileLeft(task) ==
    /\ task.audio_file_path \in DOMAIN tmp
    /\ tmp[task.audio_file_path] = task.upload

\* C1: in every reachable state every Transcription row has status completed
\* if and only if its raw_text and its medical_notes are both non-null.
C1_CompletedIffContent ==
    \A id \in DOMAIN transcriptions :
        (transcriptions[id].status = COMPLETED) <=> HasContent(transcriptions[id])

\* C2: when generate_medical_notes raised and the run is over, the row is
\* failed, its raw_text is the transcript and its medical_notes is null.
C2_ExtractionFailureKeepsText ==
    \A i \in DOMAIN tasks :
        (tasks[i].pc = "returned" /\ "extract" \in tasks[i].faults) =>
            /\ Row(i).status = FAILED
            /\ Row(i).raw_text = Some(transcript)
            /\ Row(i).medical_notes = NULL

C4_TerminalAbsorbing ==
    [][\A id \in DOMAIN transcriptions :
          transcriptions[id].status \in Terminal =>
              transcriptions'[id].status = transcriptions[id].status]_vars

\* C5: once a run is over, on any exit path, the file its upload wrote is no
\* longer in /tmp.
C5_TempFileRemoved ==
    \A i \in DOMAIN tasks : Finished(tasks[i]) => ~FileLeft(tasks[i])

\* C6: a repeated run for a completed transcription adds no row to
\* terminology_validations: no term of a transcription has more than the one
\* row its first run stored.
C6_NoDuplicateValidationRows ==
    \A id \in DOMAIN transcriptions, k \in DOMAIN terminology_validations :
        Cardinality(RowsOf(terminology_validations, id,
                           terminology_validations[k].original_term)) <= 1

\* C7: no exception leaves process_audio_transcription: no run ends raised.
C7_NoExceptionEscapes ==
    \A i \in DOMAIN tasks : tasks[i].pc # "raised"

\* C8: a run in which only the validation of one term raised ends with its
\* row completed and with a row stored for every term that validated.
C8_TermFailureNonFatal ==
    \A i \in DOMAIN tasks :
        (Finished(tasks[i]) /\ tasks[i].faults = {"validate"}) =>
            /\ Row(i).status = COMPLETED
            /\ \A k \in DOMAIN tasks[i].validated_terms :
                  RowsOf(terminology_validations, tasks[i].transcription_id,
                         tasks[i].validated_terms[k].term) # {}

\* C9: in every reachable state a row whose status is completed or failed
\* has processed_at set.
C9_TerminalHasProcessedAt ==
    \A id \in DOMAIN transcriptions :
        transcriptions[id].status \in Terminal => transcriptions[id].processed_at # NULL

\* a completed row and a failed row, each with processed_at set
C9_Witness ==
    \E a, b \in DOMAIN transcriptions :
        /\ transcriptions[a].status = COMPLETED /\ transcriptions[a].processed_at # NULL
        /\ transcriptions[b].status = FAILED /\ transcriptions[b].processed_at # NULL

\* C10: update_transcription sets processed_at only with a terminal status,
\* so a row whose status is processing has no processed_at.
C10_ProcessingHasNoProcessedAt ==
    \A id \in DOMAIN transcriptions :
        transcriptions[id].status = PROCESSING => transcriptions[id].processed_at = NULL

\* C11: update_transcription called with an id that no stored row has raises
\* to its caller; it never returns as if the update had succeeded.
C11_UpdateUnknownIdRaises ==
    (last_call.op = "update" /\ last_call.transcription_id \notin DOMAIN transcriptions)
        => last_call.result = "raise"

\* the names of UploadRequests whose extension, lower-cased, is none of .wav,
\* .mp3, .m4a, .webm: a.txt, wav (no dot) and .mp3 (a leading dot, no
\* extension)
RejectedNames == {TxtName, NoExtName, HiddenName}

\* the paths an upload of one of the other names writes
AcceptedPaths ==
    { file_path(req.filename) : req \in {r \in UploadRequests : r.filename \notin RejectedNames} }

\* C12: an upload whose lower-cased extension is none of .wav, .mp3, .m4a,
\* .webm is answered with 400 and has no effect: a step answered with 400
\* changes no table, no file and no run, and no row, no file under /tmp and
\* no pipeline run ever exists for a name with such an extension.
C12_RejectedUploadHasNoEffect ==
    [][LET paths == AcceptedPaths
       IN  /\ response'.code = 400
                => UNCHANGED <<transcriptions, terminology_validations, tmp, tasks>>
           /\ response'.code \in {200, 500}
                => \E p \in paths : p \in DOMAIN tmp' /\ tmp'[p] = uploads'
           /\ DOMAIN tmp' \subseteq paths
           /\ \A i \in DOMAIN tasks' : tasks'[i].audio_file_path \in paths
           /\ \A id \in DOMAIN transcriptions' :
                \/ transcriptions'[id].audio_file_path = NULL
                \/ transcriptions'[id].audio_file_path[1] \in paths]_vars

\* a rejected upload has been answered while a row and a file of an earlier
\* upload exist
C12_Witness ==
    /\ response.code = 400
    /\ transcriptions # <<>>
    /\ tmp # <<>>
C14_UnknownIdIsNotFound ==
    [][\A transcription_id \in TranscriptionIds :
            (/\ transcription_id \notin DOMAIN transcriptions
             /\ GET_transcription(transcription_id))
            => response'.code = 404]_vars
\* seq lists each id of ids once, the latest created first
LatestFirst(db, seq, ids) ==
    /\ {seq[k] : k \in DOMAIN seq} = ids
    /\ Len(seq) = Cardinality(ids)
    /\ \A k \in 1..(Len(seq) - 1) : db[seq[k]].created_at >= db[seq[k + 1]].created_at

\* the list of a doctor is answered with exactly the rows of that doctor,
\* the latest created first
DoctorListLatestFirst ==
    [][\A doctor_id \in DoctorIds :
            GET_doctor_transcriptions(doctor_id)
            => (/\ response'.code = 200
                /\ LatestFirst(transcriptions, response'.body,
                       {i \in DOMAIN transcriptions : transcriptions[i].doctor_id = doctor_id}))]_vars

\* C15: the list of a patient is answered with exactly the stored rows whose
\* patient_id is the requested one, ordered by created_at descending, and
\* the list of a doctor likewise on doctor_id.
C15_ListsFilteredLatestFirst ==
    [][/\ \A patient_id \in PatientIds :
            GET_patient_transcriptions(patient_id)
            => (/\ response'.code = 200
                /\ LatestFirst(transcriptions, response'.body,
                       {i \in DOMAIN transcriptions : transcriptions[i].patient_id = patient_id}))
       /\ \A doctor_id \in DoctorIds :
            GET_doctor_transcriptions(doctor_id)
            => (/\ response'.code = 200
                /\ LatestFirst(transcriptions, response'.body,
                       {i \in DOMAIN transcriptions : transcriptions[i].doctor_id = doctor_id}))]_vars
\* C16: no two pipeline runs are ever started for the same transcription id:
\* every run belongs to the row its upload created, and every row created by
\* an upload has its one run.
C16_OneRunPerTranscription ==
    /\ \A i, j \in DOMAIN tasks :
            i # j => tasks[i].transcription_id # tasks[j].transcription_id
    /\ \A i \in DOMAIN tasks :
            /\ tasks[i].transcription_id \in DOMAIN transcriptions
            /\ Row(i).audio_file_path = Some(tasks[i].audio_file_path)
    /\ \A id \in DOMAIN transcriptions :
            transcriptions[id].audio_file_path # NULL
                => \E i \in DOMAIN tasks : tasks[i].transcription_id = id

\* two runs, of two transcriptions, are under way at the same time
C16_Witness ==
    \E i, j \in DOMAIN tasks :
        /\ i # j
        /\ ~Finished(tasks[i])
        /\ ~Finished(tasks[j])
        /\ tasks[i].pc # "extract"
        /\ tasks[j].pc # "extract"

\* C17: the file of a run belongs to that run alone: until the run removes
\* it the file is in /tmp with the content its upload wrote, whatever other
\* uploads and runs do, and no run fails at os.remove because the file is
\* gone.
C17_TempFileOwnedByRun ==
    \A i \in DOMAIN tasks :
        /\ tasks[i].pc \in {"extract", "validate", "update", "save", "remove"}
                => FileLeft(tasks[i])
        /\ "remove" \notin tasks[i].faults

\* C18: the stages of a run follow one another: a term is validated only
\* after extraction has returned its notes, and the row is written completed
\* only after every term of the run has been validated.
C18_StagesSequential ==
    \A i \in DOMAIN tasks :
        LET task == tasks[i]
            terms == extract_medical_terms(transcript)
        IN  /\ (task.pc = "validate" \/ task.validated_terms # <<>>)
                    => task.medical_notes # NULL
            /\ (task.pc \in {"update", "save", "remove"} \/ Row(i).status = COMPLETED)
                    => /\ task.medical_notes # NULL
                       /\ Len(task.validated_terms) = Len(terms)
                       /\ \A k \in 1..Len(terms) : task.validated_terms[k].term = terms[k]

\* a run has written its row completed after validating both terms
C18_Witness ==
    \E i \in DOMAIN tasks :
        /\ Row(i).status = COMPLETED
        /\ Len(tasks[i].validated_terms) = 2
\* C19: a committed update_transcription changes only the fields whose
\* argument is not None, to that argument; it leaves created_at, the patient,
\* the doctor and every other row as they were and sets updated_at to the
\* time of the update, which is not before the previous updated_at. A call
\* that finds no row or raises stores nothing.
C19_UpdateMergesNonNull ==
    [][last_call'.op = "update" =>
            LET c == last_call'
                id == c.transcription_id
            IN  IF c.result = "row"
                THEN /\ id \in DOMAIN transcriptions
                     /\ DOMAIN transcriptions' = DOMAIN transcriptions
                     /\ \A j \in DOMAIN transcriptions \ {id} : transcriptions'[j] = transcriptions[j]
                     /\ LET old == transcriptions[id]
                            new == transcriptions'[id]
                        IN  /\ new.raw_text = IF c.transcript_text = NULL
                                              THEN old.raw_text ELSE c.transcript_text
                            /\ new.medical_notes = IF c.medical_notes = NULL
                                                   THEN old.medical_notes ELSE c.medical_notes
                            /\ new.status = IF c.status = NULL THEN old.status ELSE c.status[1]
                            /\ new.confidence_score = IF c.confidence_score = NULL
                                                      THEN old.confidence_score
                                                      ELSE c.confidence_score
                            /\ new.created_at = old.created_at
                            /\ new.patient_id = old.patient_id
                            /\ new.doctor_id = old.doctor_id
                            /\ new.audio_file_path = old.audio_file_path
                            /\ new.updated_at = now
                            /\ new.updated_at >= old.updated_at
                ELSE transcriptions' = transcriptions]_vars

\* an update without text and notes has been committed on a row that had
\* both from an earlier update
C19_Witness ==
    /\ last_call.op = "update"
    /\ last_call.result = "row"
    /\ last_call.transcript_text = NULL
    /\ last_call.medical_notes = NULL
    /\ LET row == transcriptions[last_call.transcription_id]
       IN  /\ row.raw_text # NULL
           /\ row.medical_notes # NULL
           /\ row.updated_at > row.created_at

====
